---- MODULE Spec2Model ----
(***************************************************************************)
(* Model of termios.c, the Lua binding over the POSIX terminal-control API. *)
(* The state is the kernel's state for one terminal descriptor (terminal    *)
(* attributes, descriptor status flags, open/closed), plus a record of the  *)
(* last call made through the binding (arguments, system calls performed,   *)
(* values returned to Lua).  Each registered function is one action; the    *)
(* calls are synchronous, one at a time: Resume is the caller going on      *)
(* from a returned call to its next one.                                    *)
(***************************************************************************)
EXTENDS Integers, Sequences, FiniteSets, TLC

(***************************************************************************)
(* Bounds of the model.                                                     *)
(***************************************************************************)
\* how many of TestBauds are offered as the baud argument of cfset*speed
NBauds == 3
\* how many of InitModes the terminal may start in
NModes == 1
\* tcsendbreak durations offered: 0..MaxDuration
MaxDuration == 1

(***************************************************************************)
(* Lua values, tagged with their type as lua_type() sees them.              *)
(***************************************************************************)
LNil == [t |-> "nil", v |-> 0]
LNum(n) == [t |-> "number", v |-> n]
LStr(s) == [t |-> "string", v |-> s]
LBool(b) == [t |-> "boolean", v |-> b]
\* an io library file handle: FILE** whose FILE* is NULL once closed
LFile(closed) == [t |-> "file", v |-> closed]

\* what a C function hands back to Lua: its return values, or a raised error
Return(vals) == [kind |-> "return", vals |-> vals]
Raise(msg) == [kind |-> "error", vals |-> <<LStr(msg)>>]

(***************************************************************************)
(* The platform.                                                            *)
(***************************************************************************)
\* the one descriptor number the model's terminal can be open on
TtyFd == 3
\* the descriptor behind the io handle offered as argument
HandleFd == 3
TtyPath == "/dev/pts/1"

errno_value == [OK |-> 0, ENOENT |-> 2, EINTR |-> 4, EIO |-> 5, EBADF |-> 9,
                EINVAL |-> 22, ENOTSUP |-> 95]
strerror == [OK |-> "Success", ENOENT |-> "No such file or directory",
             EINTR |-> "Interrupted system call", EIO |-> "Input/output error",
             EBADF |-> "Bad file descriptor", EINVAL |-> "Invalid argument",
             ENOTSUP |-> "Operation not supported"]

\* the table with B9600 written again on the 19200 line
speeds_b9600_twice == <<
    [speed |-> 0, baud |-> 0],
    [speed |-> 1, baud |-> 50],
    [speed |-> 2, baud |-> 75],
    [speed |-> 3, baud |-> 110],
    [speed |-> 4, baud |-> 134],
    [speed |-> 5, baud |-> 150],
    [speed |-> 6, baud |-> 200],
    [speed |-> 7, baud |-> 300],
    [speed |-> 8, baud |-> 600],
    [speed |-> 9, baud |-> 1200],
    [speed |-> 10, baud |-> 1800],
    [speed |-> 11, baud |-> 2400],
    [speed |-> 12, baud |-> 4800],
    [speed |-> 13, baud |-> 9600],
    [speed |-> 13, baud |-> 19200],
    [speed |-> 15, baud |-> 38400],
    [speed |-> 4097, baud |-> 57600],
    [speed |-> 4098, baud |-> 115200],
    [speed |-> 4099, baud |-> 230400],
    [speed |-> 4100, baud |-> 460800],
    [speed |-> 4101, baud |-> 500000],
    [speed |-> 4102, baud |-> 576000],
    [speed |-> 4103, baud |-> 921600],
    [speed |-> 4104, baud |-> 1000000],
    [speed |-> 4105, baud |-> 1152000],
    [speed |-> 4106, baud |-> 1500000],
    [speed |-> 4107, baud |-> 2000000],
    [speed |-> 4108, baud |-> 2500000],
    [speed |-> 4109, baud |-> 3000000],
    [speed |-> 4110, baud |-> 3500000],
    [speed |-> 4111, baud |-> 4000000] >>

\* { Bxxx, xxx } entries, with the speed_t values of <asm-generic/termbits.h>
speeds == <<
    [speed |-> 0, baud |-> 0],
    [speed |-> 1, baud |-> 50],
    [speed |-> 2, baud |-> 75],
    [speed |-> 3, baud |-> 110],
    [speed |-> 4, baud |-> 134],
    [speed |-> 5, baud |-> 150],
    [speed |-> 6, baud |-> 200],
    [speed |-> 7, baud |-> 300],
    [speed |-> 8, baud |-> 600],
    [speed |-> 9, baud |-> 1200],
    [speed |-> 10, baud |-> 1800],
    [speed |-> 11, baud |-> 2400],
    [speed |-> 12, baud |-> 4800],
    [speed |-> 13, baud |-> 9600],
    [speed |-> 14, baud |-> 19200],
    [speed |-> 15, baud |-> 38400],
    [speed |-> 4097, baud |-> 57600],
    [speed |-> 4098, baud |-> 115200],
    [speed |-> 4099, baud |-> 230400],
    [speed |-> 4100, baud |-> 460800],
    [speed |-> 4101, baud |-> 500000],
    [speed |-> 4102, baud |-> 576000],
    [speed |-> 4103, baud |-> 921600],
    [speed |-> 4104, baud |-> 1000000],
    [speed |-> 4105, baud |-> 1152000],
    [speed |-> 4106, baud |-> 1500000],
    [speed |-> 4107, baud |-> 2000000],
    [speed |-> 4108, baud |-> 2500000],
    [speed |-> 4109, baud |-> 3000000],
    [speed |-> 4110, baud |-> 3500000],
    [speed |-> 4111, baud |-> 4000000] >>

SPEEDS == Len(speeds)

\* speed_t values a terminal can report that the table above does not list
\* (BOTHER of <asm-generic/termbits.h>)
UnlistedSpeeds == {4096}

\* bits of the four flag words, by name; CS8 is both CSIZE bits
IflagRaw == {"IGNBRK", "BRKINT", "PARMRK", "ISTRIP", "INLCR", "IGNCR", "ICRNL", "IXON"}
OflagRaw == {"OPOST"}
LflagRaw == {"ECHO", "ECHONL", "ICANON", "ISIG", "IEXTEN"}
CSIZE == {"CSIZE0", "CSIZE1"}
CS8 == {"CSIZE0", "CSIZE1"}

\* struct termios
Termios(i, o, c, l, cc, isp, osp) ==
    [c_iflag |-> i, c_oflag |-> o, c_cflag |-> c, c_lflag |-> l, c_cc |-> cc,
     c_ispeed |-> isp, c_ospeed |-> osp]

\* struct termios termios={0};
ZeroTermios == Termios({}, {}, {}, {}, [VMIN |-> 0, VTIME |-> 0], 0, 0)

\* struct termios termios;  (no initialiser: whatever the stack holds; the
\* handlers never read it before tcgetattr() has filled it)
StackTermios ==
    { Termios({"IXON"}, {}, {"CSIZE0"}, {"ECHO"}, [VMIN |-> 0, VTIME |-> 0], 4096, 4096) }

\* modes a terminal may be found in, speeds left open: a 7-bit, parity,
\* line-edited terminal; a half-raw one; an 8-bit one with odd settings
InitModes == <<
    Termios({"ICRNL", "IXON", "IXOFF"}, {"OPOST", "ONLCR"}, {"CSIZE1", "PARENB", "CREAD"},
            {"ICANON", "ECHO", "ISIG", "NOFLSH"}, [VMIN |-> 4, VTIME |-> 1], 0, 0),
    Termios({"ISTRIP", "IXOFF"}, {"ONLCR"}, {"CSIZE0", "CSIZE1", "CREAD"},
            {"ECHO", "IEXTEN", "TOSTOP"}, [VMIN |-> 0, VTIME |-> 5], 0, 0),
    Termios({"IGNBRK"}, {"OPOST"}, {"CSIZE0", "CREAD", "CLOCAL"},
            {"ICANON", "TOSTOP"}, [VMIN |-> 1, VTIME |-> 0], 0, 0) >>

\* baud arguments tried, supported and not
TestBauds == <<38400, 13337, 0, 9600, 57600>>


VARIABLES
    attrs,      \* the kernel's terminal attributes of the terminal
    flags,      \* the open file description's status flags (fcntl F_GETFL)
    fdOpen,     \* whether descriptor TtyFd names the open terminal
    last,       \* the call that has just returned: function, arguments,
                \* syscalls made, result; NoCall while the caller is between calls
    pre,        \* attrs and flags as they were when the last call started
    prev        \* the call the caller made before, once it has returned

vars == <<attrs, flags, fdOpen, last, pre, prev>>

(***************************************************************************)
(* System and library calls.  env is the outcome the environment gives a   *)
(* call on a valid descriptor ("OK" or an errno name).                     *)
(***************************************************************************)
Call(name, fd, opt, err) == [call |-> name, fd |-> fd, opt |-> opt, err |-> err]

\* errno of a call on fd: EBADF unless fd is the open terminal
sys_errno(fd, env) == IF fd = TtyFd /\ fdOpen THEN env ELSE "EBADF"

\* tcgetattr(fd, &termios): fills the caller's struct only on success
tcgetattr(fd, local, env) ==
    LET e == sys_errno(fd, env) IN
    [rc |-> IF e = "OK" THEN 0 ELSE -1, errno |-> e,
     termios |-> IF e = "OK" THEN attrs ELSE local,
     call |-> Call("tcgetattr", fd, "-", e)]

\* what the terminal keeps of a written struct.  The terminal takes every
\* setting asked for (a pseudo-terminal does); an input speed of zero means
\* "set the input speed to the output speed"
kernel_store(t) ==
    IF t.c_ispeed = 0 THEN [t EXCEPT !.c_ispeed = t.c_ospeed] ELSE t

\* tcsetattr(fd, opt, &termios): it fails only when none of the changes was
\* made, so attrs are replaced on success and kept on failure
tcsetattr(fd, opt, t, env) ==
    LET e == sys_errno(fd, env) IN
    [rc |-> IF e = "OK" THEN 0 ELSE -1, errno |-> e,
     attrs |-> IF e = "OK" THEN kernel_store(t) ELSE attrs,
     call |-> Call("tcsetattr", fd, opt, e)]

\* the speed_t values cfset*speed() accepts
valid_speed(speed) == \E k \in 1..SPEEDS : speeds[k].speed = speed

cfsetispeed(t, speed) ==
    IF valid_speed(speed)
    THEN [rc |-> 0, errno |-> "OK", termios |-> [t EXCEPT !.c_ispeed = speed]]
    ELSE [rc |-> -1, errno |-> "EINVAL", termios |-> t]

cfsetospeed(t, speed) ==
    IF valid_speed(speed)
    THEN [rc |-> 0, errno |-> "OK", termios |-> [t EXCEPT !.c_ospeed = speed]]
    ELSE [rc |-> -1, errno |-> "EINVAL", termios |-> t]

\* only the output speed is set
cfsetspeed_output_only(t, speed) ==
    IF valid_speed(speed)
    THEN [rc |-> 0, errno |-> "OK", termios |-> [t EXCEPT !.c_ospeed = speed]]
    ELSE [rc |-> -1, errno |-> "EINVAL", termios |-> t]

cfsetspeed(t, speed) ==
    IF valid_speed(speed)
    THEN [rc |-> 0, errno |-> "OK",
          termios |-> [t EXCEPT !.c_ispeed = speed, !.c_ospeed = speed]]
    ELSE [rc |-> -1, errno |-> "EINVAL", termios |-> t]

cfgetispeed(t) == t.c_ispeed
cfgetospeed(t) == t.c_ospeed

\* a call through the cfsetspeedfn* / cfgetspeedfn* a handler was given
call_setspeedfn(speedfn, t, speed) ==
    IF speedfn = "cfsetspeed" THEN cfsetspeed(t, speed)
    ELSE IF speedfn = "cfsetispeed" THEN cfsetispeed(t, speed)
    ELSE cfsetospeed(t, speed)
call_getspeedfn(speedfn, t) ==
    IF speedfn = "cfgetispeed" THEN cfgetispeed(t) ELSE cfgetospeed(t)

\* the local-mode bits toggled instead of cleared
cfmakeraw_toggle(t) ==
    [t EXCEPT !.c_iflag = @ \ IflagRaw,
              !.c_oflag = @ \ OflagRaw,
              !.c_lflag = (@ \ LflagRaw) \cup (LflagRaw \ @),
              !.c_cflag = (@ \ (CSIZE \cup {"PARENB"})) \cup CS8,
              !.c_cc = [VMIN |-> 1, VTIME |-> 0]]

cfmakeraw(t) ==
    [t EXCEPT !.c_iflag = @ \ IflagRaw,
              !.c_oflag = @ \ OflagRaw,
              !.c_lflag = @ \ LflagRaw,
              !.c_cflag = (@ \ (CSIZE \cup {"PARENB"})) \cup CS8,
              !.c_cc = [VMIN |-> 1, VTIME |-> 0]]

(***************************************************************************)
(* Helpers of termios.c.                                                    *)
(***************************************************************************)
\* the outcome of one handler: what Lua gets, the syscalls made, the kernel after
Out(result, calls, a, f, o) ==
    [result |-> result, calls |-> calls, attrs |-> a, flags |-> f, fdOpen |-> o]

\* a handler that returns without having changed anything in the kernel
Done(result, calls) == Out(result, calls, attrs, flags, fdOpen)

push_error(e) == Return(<<LNil, LStr(strerror[e]), LNum(errno_value[e])>>)

\* the closed-handle test left out: fileno() of the dead stream is handed on
check_fileno_unchecked(d) ==
    IF d.t = "number" THEN [ok |-> TRUE, fd |-> d.v, err |-> ""]
    ELSE IF d.t # "file"
         THEN [ok |-> FALSE, fd |-> -1, err |-> "bad argument (FILE* expected)"]
    ELSE [ok |-> TRUE, fd |-> IF d.v THEN -1 ELSE HandleFd, err |-> ""]

check_fileno(d) ==
    IF d.t = "number" THEN [ok |-> TRUE, fd |-> d.v, err |-> ""]
    ELSE IF d.t # "file"
         THEN [ok |-> FALSE, fd |-> -1, err |-> "bad argument (FILE* expected)"]
    ELSE IF d.v
         THEN [ok |-> FALSE, fd |-> -1, err |-> "attempt to use a closed file"]
    ELSE [ok |-> TRUE, fd |-> HandleFd, err |-> ""]

\* the default taken to be "now"
check_when_default_now(w) ==
    LET name == IF w.t = "nil" THEN "now" ELSE w.v IN
    IF w.t \notin {"nil", "string"}
    THEN [ok |-> FALSE, opt |-> "-", err |-> "bad argument (string expected)"]
    ELSE IF name = "now" THEN [ok |-> TRUE, opt |-> "TCSANOW", err |-> ""]
    ELSE IF name = "drain" THEN [ok |-> TRUE, opt |-> "TCSADRAIN", err |-> ""]
    ELSE IF name = "flush" THEN [ok |-> TRUE, opt |-> "TCSAFLUSH", err |-> ""]
    ELSE [ok |-> FALSE, opt |-> "-", err |-> "bad argument (invalid option)"]

\* luaL_checkoption(L, index, "flush", opts), then opti[]
check_when(w) ==
    LET name == IF w.t = "nil" THEN "flush" ELSE w.v IN
    IF w.t \notin {"nil", "string"}
    THEN [ok |-> FALSE, opt |-> "-", err |-> "bad argument (string expected)"]
    ELSE IF name = "now" THEN [ok |-> TRUE, opt |-> "TCSANOW", err |-> ""]
    ELSE IF name = "drain" THEN [ok |-> TRUE, opt |-> "TCSADRAIN", err |-> ""]
    ELSE IF name = "flush" THEN [ok |-> TRUE, opt |-> "TCSAFLUSH", err |-> ""]
    ELSE [ok |-> FALSE, opt |-> "-", err |-> "bad argument (invalid option)"]

\* the result of the read not looked at
check_tcgetattr_ignored(rd) == FALSE
\* the macros: should the handler return push_error(L) now?
check_tcgetattr(rd) == rd.rc < 0
check_tcsetattr(wr) == wr.rc < 0

\* the argument as a C int; the numbers tried are all ints
luaL_checkint(v) ==
    IF v.t = "number" THEN [ok |-> TRUE, n |-> v.v, err |-> ""]
    ELSE [ok |-> FALSE, n |-> 0, err |-> "bad argument (number expected)"]

\* false for nil and false, true for every other value
lua_toboolean(v) == ~(v.t = "nil" \/ (v.t = "boolean" /\ ~v.v))
optboolean(v, d) == IF v.t = "nil" THEN d ELSE lua_toboolean(v)


(***************************************************************************)
(* Speed Table lookups: the two for-loops, first match wins.  i counts     *)
(* from 0 as in the C code; i = SPEEDS means the loop ran off the end.     *)
(***************************************************************************)
RECURSIVE baud_loop(_, _)
baud_loop(i, baud) ==
    IF i < SPEEDS
    THEN IF speeds[i + 1].baud = baud
         THEN [i |-> i, speed |-> speeds[i + 1].speed]
         ELSE baud_loop(i + 1, baud)
    ELSE [i |-> i, speed |-> 0]

RECURSIVE speed_loop(_, _)
speed_loop(i, speed) ==
    IF i < SPEEDS
    THEN IF speeds[i + 1].speed = speed
         THEN [i |-> i, baud |-> speeds[i + 1].baud]
         ELSE speed_loop(i + 1, speed)
    ELSE [i |-> i, baud |-> 0]

\* the end-of-table test written so that it never holds
unsupported_speed_never(i) == i > SPEEDS
\* if (i == SPEEDS) in setspeed
unsupported_speed(i) == i = SPEEDS
\* the raw speed left out of the values pushed
unsupported_value_short(speed) ==
    Return(<<LNil, LStr("unsupported"), LNum(errno_value["ENOTSUP"])>>)
\* if (i == SPEEDS) in getspeed: the four values pushed
unsupported_value(speed) ==
    Return(<<LNil, LStr("unsupported"), LNum(errno_value["ENOTSUP"]), LNum(speed)>>)

(***************************************************************************)
(* The handlers.  rdEnv, wrEnv: what the environment answers to the first  *)
(* and the second system call; stack: the content of an uninitialised      *)
(* local struct termios.                                                    *)
(***************************************************************************)
ltermios_fileno(d) ==
    LET f == check_fileno(d) IN
    IF ~f.ok THEN Done(Raise(f.err), <<>>)
    ELSE Done(Return(<<LNum(f.fd)>>), <<>>)

\* the two branches swapped
blocking_flags_swapped(fl, block) ==
    IF block THEN fl \cup {"O_NONBLOCK"} ELSE fl \ {"O_NONBLOCK"}
\* flags &= ~O_NONBLOCK  /  flags |= O_NONBLOCK
blocking_flags(fl, block) ==
    IF block THEN fl \ {"O_NONBLOCK"} ELSE fl \cup {"O_NONBLOCK"}

\* fcntl(fd, F_GETFL)
fcntl_getfl(fd) ==
    LET e == sys_errno(fd, "OK") IN
    [rc |-> IF e = "OK" THEN 0 ELSE -1, errno |-> e,
     flags |-> flags, call |-> Call("fcntl_GETFL", fd, "-", e)]

\* fcntl(fd, F_SETFL, flags): the access mode is not changed by F_SETFL
fcntl_setfl(fd, fl) ==
    LET e == sys_errno(fd, "OK") IN
    [rc |-> IF e = "OK" THEN 0 ELSE -1, errno |-> e,
     flags |-> IF e = "OK" THEN (fl \ {"O_RDWR"}) \cup (flags \cap {"O_RDWR"}) ELSE flags,
     call |-> Call("fcntl_SETFL", fd, "-", e)]

ltermios_setblocking(d, blocking) ==
    LET f == check_fileno(d)
        block == lua_toboolean(blocking)
        g == fcntl_getfl(f.fd)
        s == fcntl_setfl(f.fd, blocking_flags(g.flags, block))
    IN
    IF ~f.ok THEN Done(Raise(f.err), <<>>)
    ELSE IF g.rc < 0 THEN Done(push_error(g.errno), <<g.call>>)
    ELSE IF s.rc < 0 THEN Done(push_error(s.errno), <<g.call, s.call>>)
    ELSE Out(Return(<<d>>), <<g.call, s.call>>, attrs, s.flags, fdOpen)

\* &= ICANON where &= ~ICANON was meant
canonical_lflag_mask(lflag, canonical) ==
    IF canonical THEN lflag \cup {"ICANON"} ELSE lflag \cap {"ICANON"}
\* termios.c_lflag |= ICANON  /  termios.c_lflag &= ~ICANON
canonical_lflag(lflag, canonical) ==
    IF canonical THEN lflag \cup {"ICANON"} ELSE lflag \ {"ICANON"}

ltermios_setcanonical(d, canon, when, rdEnv, wrEnv) ==
    LET f == check_fileno(d)
        canonical == optboolean(canon, TRUE)
        w == check_when(when)
        rd == tcgetattr(f.fd, ZeroTermios, rdEnv)
        t == [rd.termios EXCEPT !.c_lflag = canonical_lflag(@, canonical)]
        wr == tcsetattr(f.fd, w.opt, t, wrEnv)
    IN
    IF ~f.ok THEN Done(Raise(f.err), <<>>)
    ELSE IF ~w.ok THEN Done(Raise(w.err), <<>>)
    ELSE IF check_tcgetattr(rd) THEN Done(push_error(rd.errno), <<rd.call>>)
    ELSE IF check_tcsetattr(wr) THEN Done(push_error(wr.errno), <<rd.call, wr.call>>)
    ELSE Out(Return(<<d>>), <<rd.call, wr.call>>, wr.attrs, flags, fdOpen)

setspeed(d, baudArg, when, speedfn, rdEnv, wrEnv, stack) ==
    LET f == check_fileno(d)
        b == luaL_checkint(baudArg)
        w == check_when(when)
        found == baud_loop(0, b.n)
        rd == tcgetattr(f.fd, stack, rdEnv)
        sf == call_setspeedfn(speedfn, rd.termios, found.speed)
        wr == tcsetattr(f.fd, w.opt, sf.termios, wrEnv)
    IN
    IF ~f.ok THEN Done(Raise(f.err), <<>>)
    ELSE IF ~b.ok THEN Done(Raise(b.err), <<>>)
    ELSE IF ~w.ok THEN Done(Raise(w.err), <<>>)
    ELSE IF unsupported_speed(found.i)
         THEN Done(Return(<<LNil, LStr("unsupported speed"),
                            LNum(errno_value["EINVAL"])>>), <<>>)
    ELSE IF check_tcgetattr(rd) THEN Done(push_error(rd.errno), <<rd.call>>)
    ELSE IF sf.rc < 0 THEN Done(push_error(sf.errno), <<rd.call>>)
    ELSE IF check_tcsetattr(wr) THEN Done(push_error(wr.errno), <<rd.call, wr.call>>)
    ELSE Out(Return(<<d>>), <<rd.call, wr.call>>, wr.attrs, flags, fdOpen)

getspeed(d, speedfn, rdEnv, stack) ==
    LET f == check_fileno(d)
        rd == tcgetattr(f.fd, stack, rdEnv)
        speed == call_getspeedfn(speedfn, rd.termios)
        found == speed_loop(0, speed)
    IN
    IF ~f.ok THEN Done(Raise(f.err), <<>>)
    ELSE IF check_tcgetattr(rd) THEN Done(push_error(rd.errno), <<rd.call>>)
    ELSE IF found.i = SPEEDS THEN Done(unsupported_value(speed), <<rd.call>>)
    ELSE Done(Return(<<LNum(found.baud)>>), <<rd.call>>)

\* luaL_checkoption(L, 2, "both", opts), then opti[]
flush_queue(dir) ==
    LET name == IF dir.t = "nil" THEN "both" ELSE dir.v IN
    IF dir.t \notin {"nil", "string"}
    THEN [ok |-> FALSE, opt |-> "-", err |-> "bad argument (string expected)"]
    ELSE IF name = "in" THEN [ok |-> TRUE, opt |-> "TCIFLUSH", err |-> ""]
    ELSE IF name = "out" THEN [ok |-> TRUE, opt |-> "TCOFLUSH", err |-> ""]
    ELSE IF name = "both" THEN [ok |-> TRUE, opt |-> "TCIOFLUSH", err |-> ""]
    ELSE [ok |-> FALSE, opt |-> "-", err |-> "bad argument (invalid option)"]

ltermios_tcflush(d, dir, env) ==
    LET f == check_fileno(d)
        q == flush_queue(dir)
        e == sys_errno(f.fd, env)
    IN
    IF ~f.ok THEN Done(Raise(f.err), <<>>)
    ELSE IF ~q.ok THEN Done(Raise(q.err), <<>>)
    ELSE IF e # "OK" THEN Done(push_error(e), <<Call("tcflush", f.fd, q.opt, e)>>)
    ELSE Done(Return(<<d>>), <<Call("tcflush", f.fd, q.opt, e)>>)

ltermios_tcdrain(d, env) ==
    LET f == check_fileno(d)
        e == sys_errno(f.fd, env)
    IN
    IF ~f.ok THEN Done(Raise(f.err), <<>>)
    ELSE IF e # "OK" THEN Done(push_error(e), <<Call("tcdrain", f.fd, "-", e)>>)
    ELSE Done(Return(<<d>>), <<Call("tcdrain", f.fd, "-", e)>>)

\* luaL_optint(L, 2, 0)
luaL_optint(v, def) == IF v.t = "nil" THEN def ELSE v.v

ltermios_tcsendbreak(d, dur, env) ==
    LET f == check_fileno(d)
        duration == luaL_optint(dur, 0)
        e == sys_errno(f.fd, env)
        c == Call("tcsendbreak", f.fd, ToString(duration), e)
    IN
    IF ~f.ok THEN Done(Raise(f.err), <<>>)
    ELSE IF e # "OK" THEN Done(push_error(e), <<c>>)
    ELSE Done(Return(<<d>>), <<c>>)

ltermios_cfraw(d, when, rdEnv, wrEnv, stack) ==
    LET f == check_fileno(d)
        w == check_when(when)
        rd == tcgetattr(f.fd, stack, rdEnv)
        wr == tcsetattr(f.fd, w.opt, cfmakeraw(rd.termios), wrEnv)
    IN
    IF ~f.ok THEN Done(Raise(f.err), <<>>)
    ELSE IF ~w.ok THEN Done(Raise(w.err), <<>>)
    ELSE IF check_tcgetattr(rd) THEN Done(push_error(rd.errno), <<rd.call>>)
    ELSE IF check_tcsetattr(wr) THEN Done(push_error(wr.errno), <<rd.call, wr.call>>)
    ELSE Out(Return(<<d>>), <<rd.call, wr.call>>, wr.attrs, flags, fdOpen)

\* open(path, O_NOCTTY|O_RDWR): a fresh open file description on TtyFd
ltermios_open(path) ==
    LET e == IF path.v = TtyPath THEN "OK" ELSE "ENOENT"
        c == Call("open", -1, "O_NOCTTY|O_RDWR", e)
    IN
    IF e # "OK" THEN Done(push_error(e), <<c>>)
    ELSE Out(Return(<<LNum(TtyFd)>>), <<c>>, attrs, {"O_RDWR"}, TRUE)

ltermios_close(d) ==
    LET n == luaL_checkint(d)
        e == sys_errno(n.n, "OK")
        c == Call("close", n.n, "-", e)
    IN
    IF ~n.ok THEN Done(Raise(n.err), <<>>)
    ELSE IF e # "OK" THEN Done(push_error(e), <<c>>)
    ELSE Out(Return(<<>>), <<c>>, attrs, flags, FALSE)


(***************************************************************************)
(* Arguments and environment outcomes tried.                                *)
(***************************************************************************)
\* a descriptor number, an open io handle, a closed io handle, no argument
Refs == {LNum(TtyFd), LFile(FALSE), LFile(TRUE), LNil}
\* the plain descriptor is tried with every combination of the other
\* arguments and outcomes, the other references with the defaults
Plain(d) == d.t = "number"
WhenArgs(d) ==
    IF Plain(d) THEN {LStr("now"), LStr("drain"), LStr("flush"), LNil, LStr("soon")}
    ELSE {LNil}
BaudArgs == {LNum(TestBauds[k]) : k \in 1..NBauds}
BoolArgs(d) == IF Plain(d) THEN {LBool(TRUE), LBool(FALSE), LNil} ELSE {LNil}
DirArgs(d) == IF Plain(d) THEN {LStr("in"), LStr("out"), LStr("both"), LNil} ELSE {LNil}
DurArgs(d) == IF Plain(d) THEN {LNil} \cup {LNum(n) : n \in 0..MaxDuration} ELSE {LNil}
PathArgs == {LStr(TtyPath), LStr("/nonexistent")}
CloseArgs == {LNum(TtyFd), LFile(FALSE)}
\* outcomes of <<the attribute read, the attribute write>> on a valid descriptor
ReadWriteEnv(d) ==
    IF Plain(d) THEN {<<"OK", "OK">>, <<"EIO", "OK">>, <<"OK", "EINTR">>}
    ELSE {<<"OK", "OK">>}
CallEnv(d) == IF Plain(d) THEN {"OK", "EIO"} ELSE {"OK"}

InitSpeeds == {<<15, 15>>, <<4096, 4096>>}

NoCall == [op |-> "none", d |-> LNil, arg |-> LNil, when |-> LNil, target |-> "-",
           result |-> Return(<<>>), calls |-> <<>>]

\* the call returned normally and its first value, if any, is not nil
Succeeded(r) == r.kind = "return" /\ (Len(r.vals) = 0 \/ r.vals[1].t # "nil")

\* what is remembered of a returned call: the successful mutations (of the
\* speed setters, the one for both directions), and for the two flag toggles
\* the state they started from
Mutators == {"setspeed", "setcanonical", "setblocking", "cfraw"}
Toggles == {"setcanonical", "setblocking"}
Summary(c, p) ==
    LET now == [attrs |-> attrs, flags |-> flags] IN
    IF c.op \in Mutators /\ Succeeded(c.result) /\ c.target \in {"-", "both"}
    THEN [op |-> c.op, arg |-> c.arg, target |-> c.target,
          pre |-> IF c.op \in Toggles THEN p ELSE now]
    ELSE [op |-> "other", arg |-> LNil, target |-> "-", pre |-> now]

InTable(speed) == \E k \in 1..SPEEDS : speeds[k].speed = speed

Init ==
    /\ \E m \in 1..NModes, sp \in InitSpeeds :
          attrs = [InitModes[m] EXCEPT !.c_ispeed = sp[1], !.c_ospeed = sp[2]]
    /\ flags \in {{"O_RDWR"}, {"O_RDWR", "O_NONBLOCK"}}
    /\ fdOpen = TRUE
    /\ last = NoCall
    /\ pre = [attrs |-> attrs, flags |-> flags]
    /\ prev = Summary(NoCall, pre)

\* the terminal starts with both speeds in the Speed Table
InitTable == Init /\ InTable(attrs.c_ispeed) /\ InTable(attrs.c_ospeed)

\* a call is made when the previous one has returned to the caller
Commit(op, d, arg, when, target, out) ==
    /\ last = NoCall
    /\ last' = [op |-> op, d |-> d, arg |-> arg, when |-> when, target |-> target,
                result |-> out.result, calls |-> out.calls]
    /\ attrs' = out.attrs
    /\ flags' = out.flags
    /\ fdOpen' = out.fdOpen
    /\ pre' = [attrs |-> attrs, flags |-> flags]
    /\ UNCHANGED prev

(***************************************************************************)
(* One action per function registered in termios[].                        *)
(***************************************************************************)
Fileno ==
    \E d \in Refs : Commit("fileno", d, LNil, LNil, "-", ltermios_fileno(d))

SetBlocking ==
    \E d \in Refs : \E b \in BoolArgs(d) :
        Commit("setblocking", d, b, LNil, "-", ltermios_setblocking(d, b))

SetCanonical ==
    \E d \in Refs : \E c \in BoolArgs(d), w \in WhenArgs(d), env \in ReadWriteEnv(d) :
        Commit("setcanonical", d, c, w, "-",
               ltermios_setcanonical(d, c, w, env[1], env[2]))

TcFlush ==
    \E d \in Refs : \E dir \in DirArgs(d), env \in CallEnv(d) :
        Commit("tcflush", d, dir, LNil, "-", ltermios_tcflush(d, dir, env))

TcDrain ==
    \E d \in Refs : \E env \in CallEnv(d) :
        Commit("tcdrain", d, LNil, LNil, "-", ltermios_tcdrain(d, env))

TcSendBreak ==
    \E d \in Refs : \E dur \in DurArgs(d), env \in CallEnv(d) :
        Commit("tcsendbreak", d, dur, LNil, "-", ltermios_tcsendbreak(d, dur, env))

CfRaw ==
    \E d \in Refs : \E w \in WhenArgs(d), env \in ReadWriteEnv(d), stack \in StackTermios :
        Commit("cfraw", d, LNil, w, "-", ltermios_cfraw(d, w, env[1], env[2], stack))

CfSetSpeed ==
    \E d \in Refs : \E b \in BaudArgs, w \in WhenArgs(d), env \in ReadWriteEnv(d),
       stack \in StackTermios :
        Commit("setspeed", d, b, w, "both",
               setspeed(d, b, w, "cfsetspeed", env[1], env[2], stack))

CfSetISpeed ==
    \E d \in Refs : \E b \in BaudArgs, w \in WhenArgs(d), env \in ReadWriteEnv(d),
       stack \in StackTermios :
        Commit("setspeed", d, b, w, "input",
               setspeed(d, b, w, "cfsetispeed", env[1], env[2], stack))

CfSetOSpeed ==
    \E d \in Refs : \E b \in BaudArgs, w \in WhenArgs(d), env \in ReadWriteEnv(d),
       stack \in StackTermios :
        Commit("setspeed", d, b, w, "output",
               setspeed(d, b, w, "cfsetospeed", env[1], env[2], stack))

CfGetISpeed ==
    \E d \in Refs : \E env \in CallEnv(d), stack \in StackTermios :
        Commit("getspeed", d, LNil, LNil, "input", getspeed(d, "cfgetispeed", env, stack))

CfGetOSpeed ==
    \E d \in Refs : \E env \in CallEnv(d), stack \in StackTermios :
        Commit("getspeed", d, LNil, LNil, "output", getspeed(d, "cfgetospeed", env, stack))

\* the model has one descriptor slot: the terminal is opened only when closed
Open ==
    \E path \in PathArgs :
        /\ path.v = TtyPath => ~fdOpen
        /\ Commit("open", LNil, path, LNil, "-", ltermios_open(path))

Close ==
    \E d \in CloseArgs : Commit("close", d, LNil, LNil, "-", ltermios_close(d))

\* the caller takes the returned values and goes on to its next call
Resume ==
    /\ last # NoCall
    /\ prev' = Summary(last, pre)
    /\ last' = NoCall
    /\ pre' = [attrs |-> attrs, flags |-> flags]
    /\ UNCHANGED <<attrs, flags, fdOpen>>

(***************************************************************************)
(* The two table searches on their own, run over the whole table and over  *)
(* values it does not hold.                                                 *)
(***************************************************************************)
LookupBauds == {speeds[k].baud : k \in 1..SPEEDS} \cup {TestBauds[k] : k \in 1..NBauds}
LookupSpeeds == {speeds[k].speed : k \in 1..SPEEDS} \cup UnlistedSpeeds

Looked(op, arg, i, val) ==
    /\ last' = [op |-> op, d |-> LNil, arg |-> LNum(arg), when |-> LNil, target |-> "-",
                result |-> Return(<<LNum(i), LNum(val)>>), calls |-> <<>>]
    /\ UNCHANGED <<attrs, flags, fdOpen, pre, prev>>

\* the loop of setspeed: baud to speed_t
LookupBaud ==
    \E baud \in LookupBauds :
        LET found == baud_loop(0, baud) IN Looked("baud_loop", baud, found.i, found.speed)

\* the loop of getspeed: speed_t to baud
LookupSpeed ==
    \E speed \in LookupSpeeds :
        LET found == speed_loop(0, speed) IN Looked("speed_loop", speed, found.i, found.baud)

NextLookup ==
    \/ LookupBaud
    \/ LookupSpeed

Next ==
    \/ Fileno
    \/ SetBlocking
    \/ SetCanonical
    \/ TcFlush
    \/ TcDrain
    \/ TcSendBreak
    \/ CfRaw
    \/ CfSetSpeed
    \/ CfSetISpeed
    \/ CfSetOSpeed
    \/ CfGetISpeed
    \/ CfGetOSpeed
    \/ Open
    \/ Close
    \/ Resume

Spec == Init /\ [][Next]_vars

\* the same program, started on a terminal whose speeds are both table entries
SpecTable == InitTable /\ [][Next]_vars


\* the Speed Table searches alone
SpecLookup == Init /\ [][NextLookup]_vars



(***************************************************************************)
(* Vocabulary of the properties.                                            *)
(***************************************************************************)
\* the reference resolves to a descriptor number (check_fileno does not raise)
Resolves(d) == d.t = "number" \/ (d.t = "file" /\ ~d.v)
\* the timing argument is one of the three policies, or left out
IsPolicy(w) == w = LNil \/ w \in {LStr("now"), LStr("drain"), LStr("flush")}
\* the policy the caller asked for
PolicyOf(w) ==
    IF w = LNil \/ w = LStr("flush") THEN "TCSAFLUSH"
    ELSE IF w = LStr("now") THEN "TCSANOW" ELSE "TCSADRAIN"
BaudInTable(baud) == \E k \in 1..SPEEDS : speeds[k].baud = baud
\* the three-part failure for errno e
OSFailure(r, e) ==
    /\ r.kind = "return"
    /\ Len(r.vals) = 3
    /\ r.vals[1] = LNil
    /\ r.vals[2] = LStr(strerror[e])
    /\ r.vals[3] = LNum(errno_value[e])
\* the success result: the first argument, alone
Echo(c) == c.result = Return(<<c.d>>)
KernelUnchanged == attrs = pre.attrs /\ flags = pre.flags
NonCanonical(t) == [t EXCEPT !.c_lflag = @ \ {"ICANON"}]

\* C1: setSpeed with a baud that is not in the Speed Table, on any reference
\* that resolves to a descriptor, with any timing policy and any target,
\* returns nil, "unsupported speed", EINVAL, makes no system call and leaves
\* the kernel's attributes as they were.
C1_UnsupportedSpeedNoSyscall ==
    (/\ last.op = "setspeed"
     /\ Resolves(last.d)
     /\ IsPolicy(last.when)
     /\ ~BaudInTable(last.arg.v))
    => /\ last.result = Return(<<LNil, LStr("unsupported speed"), LNum(22)>>)
       /\ last.calls = <<>>
       /\ KernelUnchanged

\* 13337 is refused right after 38400 was set, and 38400 is still the speed
C1_Witness ==
    /\ prev.op = "setspeed"
    /\ prev.arg = LNum(38400)
    /\ last.op = "setspeed"
    /\ last.arg = LNum(13337)
    /\ last.when = LStr("now")
    /\ last.target = "both"
    /\ last.calls = <<>>
    /\ attrs.c_ospeed = 15

\* C2: after a successful setSpeed(d, b, when, both), the next call, if it is
\* a getSpeed whose attribute read succeeds, returns b, for input and output.
C2_SetSpeedThenGetSpeed ==
    (/\ prev.op = "setspeed"
     /\ prev.target = "both"
     /\ last.op = "getspeed"
     /\ Len(last.calls) = 1
     /\ last.calls[1].err = "OK")
    => last.result = Return(<<prev.arg>>)

C2_Witness ==
    /\ prev.op = "setspeed"
    /\ prev.target = "both"
    /\ prev.arg = LNum(38400)
    /\ pre.attrs.c_ispeed = 15
    /\ last.op = "getspeed"
    /\ last.target = "input"
    /\ last.result = Return(<<LNum(38400)>>)

\* C3: getSpeed on a resolving reference makes exactly one system call, the
\* attribute read, and never writes.  Read failed: the three-part OS failure.
\* Read succeeded and the raw speed is in the table: that entry's baud, alone.
\* Read succeeded and the raw speed is not in the table: nil, "unsupported",
\* ENOTSUP and the raw speed, four values.
C3_GetSpeedOutcomes ==
    (last.op = "getspeed" /\ Resolves(last.d))
    => LET raw == IF last.target = "input" THEN pre.attrs.c_ispeed
                  ELSE pre.attrs.c_ospeed
           r == last.result
       IN
       /\ Len(last.calls) = 1
       /\ last.calls[1].call = "tcgetattr"
       /\ KernelUnchanged
       /\ last.calls[1].err # "OK" => OSFailure(r, last.calls[1].err)
       /\ (last.calls[1].err = "OK" /\ InTable(raw))
          => \E k \in 1..SPEEDS :
                speeds[k].speed = raw /\ r = Return(<<LNum(speeds[k].baud)>>)
       /\ (last.calls[1].err = "OK" /\ ~InTable(raw))
          => r = Return(<<LNil, LStr("unsupported"), LNum(95), LNum(raw)>>)

\* the terminal reports a speed the table does not list
C3_Witness ==
    /\ last.op = "getspeed"
    /\ last.target = "output"
    /\ pre.attrs.c_ospeed = 4096
    /\ Len(last.result.vals) = 4
    /\ last.result.vals[4] = LNum(4096)

\* C4: setCanonical, cfRaw and setSpeed with a table baud make at most two
\* system calls: first the attribute read, then the attribute write with the
\* policy the caller gave (flush when left out).  A failed read is the only
\* call, changes nothing and gives the three-part failure; a failed write
\* gives the three-part failure; the first argument is returned only when
\* both calls succeeded.
C4_ReadThenWrite ==
    (\/ last.op \in {"setcanonical", "cfraw"}
     \/ (last.op = "setspeed" /\ BaudInTable(last.arg.v)))
    => LET c == last.calls IN
       /\ Len(c) <= 2
       /\ Len(c) >= 1 => c[1].call = "tcgetattr"
       /\ Len(c) = 2 => /\ c[2].call = "tcsetattr"
                        /\ c[1].err = "OK"
                        /\ IsPolicy(last.when)
                        /\ c[2].opt = PolicyOf(last.when)
       /\ (Len(c) >= 1 /\ c[1].err # "OK")
          => Len(c) = 1 /\ KernelUnchanged /\ OSFailure(last.result, c[1].err)
       /\ (Len(c) = 2 /\ c[2].err # "OK") => OSFailure(last.result, c[2].err)
       /\ Succeeded(last.result)
          => Echo(last) /\ Len(c) = 2 /\ c[1].err = "OK" /\ c[2].err = "OK"

\* no policy given: the write is made with TCSAFLUSH
C4_Witness ==
    /\ last.op = "setcanonical"
    /\ last.when = LNil
    /\ Len(last.calls) = 2
    /\ last.calls[2].opt = "TCSAFLUSH"
    /\ Echo(last)

\* C5: a successful setCanonical(d, c, when) leaves ICANON equal to c (true
\* when c is left out) and everything else of the attributes as it was; and
\* after a successful setCanonical(d, true) followed by a successful
\* setCanonical(d, false) everything but ICANON is as before the two calls.
C5_CanonicalFrame ==
    /\ (last.op = "setcanonical" /\ Succeeded(last.result))
       => LET c == last.arg = LNil \/ last.arg = LBool(TRUE) IN
          /\ ("ICANON" \in attrs.c_lflag) = c
          /\ NonCanonical(attrs) = NonCanonical(pre.attrs)
    /\ (/\ prev.op = "setcanonical"
        /\ prev.arg = LBool(TRUE)
        /\ last.op = "setcanonical"
        /\ last.arg = LBool(FALSE)
        /\ Succeeded(last.result))
       => /\ "ICANON" \notin attrs.c_lflag
          /\ NonCanonical(attrs) = NonCanonical(prev.pre.attrs)

\* the pair of calls, on a terminal that was not in canonical mode
C5_Witness ==
    /\ prev.op = "setcanonical"
    /\ prev.arg = LBool(TRUE)
    /\ "ICANON" \notin prev.pre.attrs.c_lflag
    /\ "ICANON" \in pre.attrs.c_lflag
    /\ last.op = "setcanonical"
    /\ last.arg = LBool(FALSE)
    /\ Succeeded(last.result)

\* C6 as stated: setBlocking(d, true) then setBlocking(d, false), both
\* succeeding, leave O_NONBLOCK as it was before the two calls.
C6_RoundTrip ==
    (/\ prev.op = "setblocking"
     /\ prev.arg = LBool(TRUE)
     /\ last.op = "setblocking"
     /\ last.arg = LBool(FALSE)
     /\ Succeeded(last.result))
    => ("O_NONBLOCK" \in flags) = ("O_NONBLOCK" \in prev.pre.flags)

\* C6 amended: a successful setBlocking(d, b) leaves O_NONBLOCK set exactly
\* when b is false or left out, and every other descriptor flag as it was;
\* so after setBlocking(d, true) then setBlocking(d, false) O_NONBLOCK is set
\* whatever it was before, and the other flags are as before the two calls.
C6_BlockingSetsFlag ==
    /\ (last.op = "setblocking" /\ Succeeded(last.result))
       => /\ ("O_NONBLOCK" \in flags) = (last.arg # LBool(TRUE))
          /\ flags \ {"O_NONBLOCK"} = pre.flags \ {"O_NONBLOCK"}
    /\ (/\ prev.op = "setblocking"
        /\ prev.arg = LBool(TRUE)
        /\ last.op = "setblocking"
        /\ last.arg = LBool(FALSE)
        /\ Succeeded(last.result))
       => /\ "O_NONBLOCK" \in flags
          /\ flags \ {"O_NONBLOCK"} = prev.pre.flags \ {"O_NONBLOCK"}

\* the pair of calls on a descriptor that was blocking
C6_Witness ==
    /\ prev.op = "setblocking"
    /\ prev.arg = LBool(TRUE)
    /\ "O_NONBLOCK" \notin prev.pre.flags
    /\ last.op = "setblocking"
    /\ last.arg = LBool(FALSE)
    /\ Succeeded(last.result)
    /\ "O_NONBLOCK" \in flags

\* C7: a successful cfRaw right after a successful cfRaw leaves the
\* attributes as the first one left them.
C7_CfRawIdempotent ==
    (prev.op = "cfraw" /\ last.op = "cfraw" /\ Succeeded(last.result))
    => attrs = pre.attrs

\* the second of two cfRaw calls on a terminal that started line-edited
C7_Witness ==
    /\ prev.op = "cfraw"
    /\ last.op = "cfraw"
    /\ Succeeded(last.result)
    /\ "ICANON" \notin attrs.c_lflag
    /\ attrs.c_cc = [VMIN |-> 1, VTIME |-> 0]
    /\ "IXOFF" \in attrs.c_iflag

\* C8: no baud and no speed_t occurs twice in the Speed Table, and the two
\* first-match searches invert each other on every entry: the speed found
\* for a baud leads back to that baud at the same index, and conversely.
C8_TableBijection ==
    /\ \A i, j \in 1..SPEEDS :
          (speeds[i].baud = speeds[j].baud \/ speeds[i].speed = speeds[j].speed)
          => i = j
    /\ (last.op = "baud_loop" /\ last.result.vals[1].v < SPEEDS)
       => speed_loop(0, last.result.vals[2].v) =
             [i |-> last.result.vals[1].v, baud |-> last.arg.v]
    /\ (last.op = "speed_loop" /\ last.result.vals[1].v < SPEEDS)
       => baud_loop(0, last.result.vals[2].v) =
             [i |-> last.result.vals[1].v, speed |-> last.arg.v]
    /\ last.op = "baud_loop" => (last.result.vals[1].v < SPEEDS) = BaudInTable(last.arg.v)
    /\ last.op = "speed_loop" => (last.result.vals[1].v < SPEEDS) = InTable(last.arg.v)

\* the last entry of the table, looked up by baud
C8_Witness ==
    /\ last.op = "baud_loop"
    /\ last.arg = LNum(4000000)
    /\ last.result = Return(<<LNum(30), LNum(4111)>>)

\* the functions that take a descriptor or an io handle as first argument
DescOps == {"fileno", "setblocking", "setcanonical", "tcflush", "tcdrain",
            "tcsendbreak", "cfraw", "setspeed", "getspeed"}
\* an integer that does not name an open descriptor
DeadNumber(d) == d.t = "number" /\ ~(d.v = TtyFd /\ fdOpen)

C10_SpeedsStayInTable ==
    /\ InTable(attrs.c_ispeed)
    /\ InTable(attrs.c_ospeed)
    /\ last.op = "getspeed" => Len(last.result.vals) # 4

\* speed 0 was set, the terminal was then made raw, and getSpeed reads 0
C10_Witness ==
    /\ prev.op = "cfraw"
    /\ last.op = "getspeed"
    /\ last.target = "input"
    /\ last.result = Return(<<LNum(0)>>)

====
